---------------------------- MODULE Spec2Model ----------------------------
(***************************************************************************)
(* Channel pairing approval: the gateway handlers                          *)
(* (src/gateway/server-methods/pairing.ts) and the HTTP handler            *)
(* (src/gateway/pairing-http.ts), run as concurrent request handlers over  *)
(* one pairing store.  A handler step is the code between two awaits.      *)
(* Strings are sequences of one-character strings.                         *)
(***************************************************************************)
EXTENDS Integers, Sequences, FiniteSets, TLC

VARIABLES reqs, pending, granted, probe

vars == <<reqs, pending, granted, probe>>

\* Number of request handlers that can be in flight at the same time.
MaxReq == 2

Slots == 1..MaxReq

(***************************************************************************)
(* JavaScript values                                                       *)
(***************************************************************************)
Undef == [t |-> "undefined"]

JNull == [t |-> "null"]

JStr(s) == [t |-> "string", s |-> s]

JBool(b) == [t |-> "boolean", b |-> b]

JNum(n) == [t |-> "number", n |-> n]

JObj(channel, code, notify) ==
    [t |-> "object", channel |-> channel, code |-> code, notify |-> notify]

\* JavaScript truthiness, as `if (params.notify)` and `!params` read it.
Truthy(v) ==
    CASE v.t = "boolean" -> v.b
      [] v.t = "string" -> Len(v.s) > 0
      [] v.t = "number" -> v.n # 0
      [] v.t = "object" -> TRUE
      [] OTHER -> FALSE

(***************************************************************************)
(* String functions                                                        *)
(***************************************************************************)
LowerLetters == <<"a","b","c","d","e","f","g","h","i","j","k","l","m",
                  "n","o","p","q","r","s","t","u","v","w","x","y","z">>

UpperLetters == <<"A","B","C","D","E","F","G","H","I","J","K","L","M",
                  "N","O","P","Q","R","S","T","U","V","W","X","Y","Z">>

Digits == {"0","1","2","3","4","5","6","7","8","9"}

Whitespace == {" ", "\t", "\n", "\r"}

Range(s) == {s[i] : i \in DOMAIN s}

\* String.prototype.toLowerCase, one character
LowerChar(c) ==
    IF c \in Range(UpperLetters)
    THEN LowerLetters[CHOOSE i \in DOMAIN UpperLetters : UpperLetters[i] = c]
    ELSE c

\* String.prototype.toLowerCase
toLowerCase(s) == [i \in DOMAIN s |-> LowerChar(s[i])]

\* String.prototype.trim: drop the leading and the trailing whitespace
RECURSIVE TrimStart(_)
TrimStart(s) ==
    IF s # <<>> /\ Head(s) \in Whitespace THEN TrimStart(Tail(s)) ELSE s

RECURSIVE TrimEnd(_)
TrimEnd(s) ==
    IF s # <<>> /\ s[Len(s)] \in Whitespace
    THEN TrimEnd(SubSeq(s, 1, Len(s) - 1))
    ELSE s

trim(s) == TrimEnd(TrimStart(s))

\* String.prototype.startsWith
startsWith(s, p) == Len(s) >= Len(p) /\ SubSeq(s, 1, Len(p)) = p

\* String.prototype.slice(n): the string without its first n characters
slice(s, n) == SubSeq(s, n + 1, Len(s))

\* s.split("/").filter(Boolean): the non-empty pieces between the slashes
RECURSIVE SplitSegments(_, _, _)
SplitSegments(s, cur, acc) ==
    IF s = <<>>
    THEN IF cur = <<>> THEN acc ELSE Append(acc, cur)
    ELSE IF Head(s) = "/"
         THEN SplitSegments(Tail(s), <<>>,
                            IF cur = <<>> THEN acc ELSE Append(acc, cur))
         ELSE SplitSegments(Tail(s), Append(cur, Head(s)), acc)

\* The {0,63} of the extension channel pattern: at most 63 characters follow
\* the first one.
ExtTailMax == 63

\* The pattern without its length limit: /^[a-z][a-z0-9_-]*$/
ExtensionPatternUnbounded(value) ==
    /\ Len(value) >= 1
    /\ value[1] \in Range(LowerLetters)
    /\ \A i \in 2..Len(value) :
          value[i] \in Range(LowerLetters) \cup Digits \cup {"_", "-"}

\* /^[a-z][a-z0-9_-]{0,63}$/.test(value)
ExtensionPattern(value) ==
    /\ Len(value) >= 1
    /\ value[1] \in Range(LowerLetters)
    /\ Len(value) - 1 <= ExtTailMax
    /\ \A i \in 2..Len(value) :
          value[i] \in Range(LowerLetters) \cup Digits \cup {"_", "-"}

(***************************************************************************)
(* Words of the model                                                      *)
(***************************************************************************)
sms == <<"s","m","s">>

ext == <<"e","x","t","-","1">>

\* The registry of known channels, as the channel plugins enumerate it.  The
\* second known channel does not match the extension pattern.
listPairingChannels == <<sms, <<"2","f","a">>>>

codeA == <<"1","2">>

(***************************************************************************)
(* Channel resolution                                                      *)
(***************************************************************************)
\* resolveChannel of server-methods/pairing.ts when listPairingChannels()
\* returns registry; ok is FALSE for null.
resolveChannelWith(registry, raw) ==
    LET value == toLowerCase(trim(raw))
        channels == registry
    IN  IF value \in Range(channels) THEN [ok |-> TRUE, channel |-> value]
        ELSE IF ExtensionPattern(value) THEN [ok |-> TRUE, channel |-> value]
        ELSE [ok |-> FALSE, channel |-> <<>>]

\* The resolution without toLowerCase()
resolveChannelHttpWithCaseKept(registry, raw) ==
    LET value == trim(raw)
        channels == registry
    IN  IF value \in Range(channels) THEN [ok |-> TRUE, channel |-> value]
        ELSE IF ExtensionPattern(value) THEN [ok |-> TRUE, channel |-> value]
        ELSE [ok |-> FALSE, channel |-> <<>>]

\* resolveChannel of pairing-http.ts when listPairingChannels() returns
\* registry
resolveChannelHttpWith(registry, raw) ==
    LET value == toLowerCase(trim(raw))
        channels == registry
    IN  IF value \in Range(channels) THEN [ok |-> TRUE, channel |-> value]
        ELSE IF ExtensionPattern(value) THEN [ok |-> TRUE, channel |-> value]
        ELSE [ok |-> FALSE, channel |-> <<>>]

\* resolveChannel of server-methods/pairing.ts
resolveChannel(raw) == resolveChannelWith(listPairingChannels, raw)

\* resolveChannel of pairing-http.ts
resolveChannelHttp(raw) == resolveChannelHttpWith(listPairingChannels, raw)

(***************************************************************************)
(* The pairing store, the notifier and the other collaborators             *)
(***************************************************************************)
\* The pending requests the channel plugins have created.
InitialPending ==
    << [id |-> "req_1", channel |-> sms, code |-> codeA],
       [id |-> "req_2", channel |-> ext, code |-> codeA] >>

RequestIds == {InitialPending[i].id : i \in DOMAIN InitialPending}

\* listChannelPairingRequests(channel): the pending requests of the channel
listChannelPairingRequests(store, channel) ==
    SelectSeq(store, LAMBDA p : p.channel = channel)

\* The positions of the pending requests approveChannelPairingCode matches
Matches(store, channel, code) ==
    {i \in DOMAIN store : store[i].channel = channel /\ store[i].code = code}

\* The store without its i-th pending request
RemoveAt(store, i) ==
    [j \in 1..(Len(store) - 1) |-> IF j < i THEN store[j] ELSE store[j + 1]]

\* approveChannelPairingCode({channel, code}): the pending request with the
\* code leaves the pending set and its id is returned, in one step; null when
\* no pending request has the code.
approveChannelPairingCode(store, channel, code) ==
    LET m == Matches(store, channel, code)
    IN  IF m = {}
        THEN [store |-> store, result |-> [kind |-> "none"]]
        ELSE LET i == CHOOSE k \in m : \A l \in m : k <= l
             IN  [store |-> RemoveAt(store, i),
                  result |-> [kind |-> "approved", id |-> store[i].id]]

(***************************************************************************)
(* Request handlers: state                                                 *)
(***************************************************************************)
NoResult == [kind |-> "pending"]

NoResponse == [transport |-> "none"]

IdleReq ==
    [pc |-> "idle", adapter |-> "none", method |-> "", params |-> Undef,
     path |-> <<>>, local |-> FALSE, token |-> Undef, body |-> Undef,
     channel |-> <<>>, code |-> <<>>, notify |-> FALSE, authorized |-> FALSE,
     result |-> NoResult, notified |-> NoResult, trace |-> <<>>,
     response |-> NoResponse]

\* A step of a handler adds what it did to the request's trace.
Did(req, event) == [req EXCEPT !.trace = Append(@, event)]

ErrorCodes == [INVALID_REQUEST |-> "INVALID_REQUEST", UNAVAILABLE |-> "UNAVAILABLE"]

\* errorShape(code, message)
errorShape(code, message) == [code |-> code, message |-> message]

\* respond(ok, payload, error) of a gateway handler, which then returns
respond(req, ok, payload, error) ==
    [Did(req, [ev |-> "respond"]) EXCEPT
        !.pc = "done",
        !.response = [transport |-> "gateway", ok |-> ok,
                      payload |-> payload, error |-> error]]

(***************************************************************************)
(* Gateway handlers (server-methods/pairing.ts)                            *)
(***************************************************************************)
validateChannelPairListParams(params) ==
    IF ~Truthy(params) \/ params.t # "object" THEN FALSE
    ELSE params.channel.t = "string" /\ Len(trim(params.channel.s)) > 0

\* The validation with the code only required to be a string
validateChannelPairApproveParamsAnyCode(params) ==
    IF ~Truthy(params) \/ params.t # "object" THEN FALSE
    ELSE /\ params.channel.t = "string"
         /\ Len(trim(params.channel.s)) > 0
         /\ params.code.t = "string"

validateChannelPairApproveParams(params) ==
    IF ~Truthy(params) \/ params.t # "object" THEN FALSE
    ELSE /\ params.channel.t = "string"
         /\ Len(trim(params.channel.s)) > 0
         /\ params.code.t = "string"
         /\ Len(trim(params.code.s)) > 0

\* "channel.pair.list" up to its await of the store
GatewayListStart(req) ==
    IF ~validateChannelPairListParams(req.params)
    THEN respond(req, FALSE, Undef,
                 errorShape(ErrorCodes.INVALID_REQUEST, "invalid channel.pair.list params"))
    ELSE LET ch == resolveChannel(req.params.channel.s)
         IN  IF ~ch.ok
             THEN respond(req, FALSE, Undef,
                          errorShape(ErrorCodes.INVALID_REQUEST, "invalid channel"))
             ELSE [Did(req, [ev |-> "store.list", channel |-> ch.channel])
                     EXCEPT !.pc = "awaitList", !.channel = ch.channel]

\* The list answering an empty list when the store throws
GatewayListResumeSwallowing(req) ==
    IF req.result.kind = "threw"
    THEN respond(req, TRUE, [channel |-> req.channel, requests |-> <<>>], Undef)
    ELSE respond(req, TRUE,
                 [channel |-> req.channel, requests |-> req.result.requests], Undef)

\* "channel.pair.list" after its await of the store
GatewayListResume(req) ==
    IF req.result.kind = "threw"
    THEN respond(req, FALSE, Undef,
                 errorShape(ErrorCodes.UNAVAILABLE, "String(err)"))
    ELSE respond(req, TRUE,
                 [channel |-> req.channel, requests |-> req.result.requests], Undef)

\* "channel.pair.approve" up to its await of the store
GatewayApproveStart(req) ==
    IF ~validateChannelPairApproveParams(req.params)
    THEN respond(req, FALSE, Undef,
                 errorShape(ErrorCodes.INVALID_REQUEST, "invalid channel.pair.approve params"))
    ELSE LET ch == resolveChannel(req.params.channel.s)
         IN  IF ~ch.ok
             THEN respond(req, FALSE, Undef,
                          errorShape(ErrorCodes.INVALID_REQUEST, "invalid channel"))
             ELSE [Did(req, [ev |-> "store.approve", channel |-> ch.channel,
                             code |-> req.params.code.s])
                     EXCEPT !.pc = "awaitApprove", !.channel = ch.channel,
                            !.code = req.params.code.s]

\* Without the `if (!approved)` check, approved.id throws and the catch
\* answers UNAVAILABLE.
GatewayNoMatchErrorUnchecked ==
    errorShape(ErrorCodes.UNAVAILABLE, "String(err)")

\* The error a gateway approve answers when the store matched no request
GatewayNoMatchError ==
    errorShape(ErrorCodes.INVALID_REQUEST, "no pending pairing request found for code")

\* The notifier called whatever params.notify is
GatewayWantsNotifyAlways(params) == TRUE

\* `if (params.notify)` of the gateway approve
GatewayWantsNotify(params) == Truthy(params.notify)

\* The broadcast carrying params.channel instead of the resolved channel
GatewayBroadcastRawChannel(req) ==
    Did(req, [ev |-> "broadcast", event |-> "channel.pair.resolved",
              channel |-> req.params.channel.s, id |-> req.result.id,
              decision |-> "approved"])

\* context.broadcast("channel.pair.resolved", {channel, id, decision, ts},
\* {dropIfSlow: true}); the timestamp is left out.
GatewayBroadcast(req) ==
    Did(req, [ev |-> "broadcast", event |-> "channel.pair.resolved",
              channel |-> req.channel, id |-> req.result.id,
              decision |-> "approved"])

\* The notifier call of an approve: loadConfig() and then
\* notifyPairingApproved({channelId, id, cfg}), which the handler awaits.
\* A loadConfig() that throws is caught by the handler's catch.
CallNotifier(req, cfgThrows) ==
    IF cfgThrows
    THEN [Did(req, [ev |-> "loadConfig"]) EXCEPT !.notified = [kind |-> "cfgThrew"]]
    ELSE [Did(Did(req, [ev |-> "loadConfig"]),
              [ev |-> "notify", channelId |-> req.channel, id |-> req.result.id])
            EXCEPT !.pc = "awaitNotify"]

\* The approve with the broadcast moved after the notifier call
GatewayApproveResumeNotifyFirst(req, cfgThrows) ==
    IF req.result.kind = "threw"
    THEN respond(req, FALSE, Undef,
                 errorShape(ErrorCodes.UNAVAILABLE, "String(err)"))
    ELSE IF req.result.kind = "none"
    THEN respond(req, FALSE, Undef, GatewayNoMatchError)
    ELSE LET logged == Did(req, [ev |-> "log.info"])
         IN  IF GatewayWantsNotify(req.params)
             THEN LET called == CallNotifier(logged, cfgThrows)
                  IN  IF called.notified.kind = "cfgThrew"
                      THEN respond(called, FALSE, Undef,
                                   errorShape(ErrorCodes.UNAVAILABLE, "String(err)"))
                      ELSE GatewayBroadcast(called)
             ELSE respond(GatewayBroadcast(logged), TRUE,
                          [channel |-> req.channel, id |-> req.result.id,
                           approved |-> TRUE], Undef)

\* "channel.pair.approve" after its await of the store
GatewayApproveResume(req, cfgThrows) ==
    IF req.result.kind = "threw"
    THEN respond(req, FALSE, Undef,
                 errorShape(ErrorCodes.UNAVAILABLE, "String(err)"))
    ELSE IF req.result.kind = "none"
    THEN respond(req, FALSE, Undef, GatewayNoMatchError)
    ELSE LET logged == Did(req, [ev |-> "log.info"])
             sent == GatewayBroadcast(logged)
         IN  IF GatewayWantsNotify(req.params)
             THEN LET called == CallNotifier(sent, cfgThrows)
                  IN  IF called.notified.kind = "cfgThrew"
                      THEN respond(called, FALSE, Undef,
                                   errorShape(ErrorCodes.UNAVAILABLE, "String(err)"))
                      ELSE called
             ELSE respond(sent, TRUE,
                          [channel |-> req.channel, id |-> req.result.id,
                           approved |-> TRUE], Undef)

\* "channel.pair.approve" after its await of the notifier: the .catch logs a
\* rejection, and the handler responds
GatewayNotifyResume(req) ==
    LET logged == IF req.notified.kind = "rejected"
                  THEN Did(req, [ev |-> "log.warn"])
                  ELSE req
    IN  respond(logged, TRUE,
                [channel |-> req.channel, id |-> req.result.id,
                 approved |-> TRUE], Undef)

(***************************************************************************)
(* HTTP handler (pairing-http.ts)                                          *)
(***************************************************************************)
PAIRING_BASE_PATH == <<"/","a","p","i","/","p","a","i","r","i","n","g">>

listAction == <<"l","i","s","t">>

approveAction == <<"a","p","p","r","o","v","e">>

\* sendJson(res, status, body), after which the handler returns true
sendJson(req, status, body) ==
    [Did(req, [ev |-> "respond"]) EXCEPT
        !.pc = "done",
        !.response = [transport |-> "http", status |-> status, body |-> body]]

\* url.pathname.slice(PAIRING_BASE_PATH.length).split("/").filter(Boolean)
PathParts(path) ==
    SplitSegments(slice(path, Len(PAIRING_BASE_PATH)), <<>>, <<>>)

\* The token the authorization engine accepts (opts.auth)
GatewaySecret == <<"k">>

\* authorizeGatewayConnect({auth, connectAuth: {token, password: token}, ...})
\* when it returns
authorizeGatewayConnect(token) == [ok |-> token = GatewaySecret]

\* The routing with the approve action taken for any method
HttpRouteAnyMethod(req) ==
    LET action == PathParts(req.path)[2]
    IN  IF action = listAction /\ req.method = "GET"
        THEN [Did(req, [ev |-> "store.list", channel |-> req.channel])
                EXCEPT !.pc = "awaitList"]
        ELSE IF action = approveAction
        THEN [req EXCEPT !.pc = "awaitBody"]
        ELSE sendJson(req, 404, [ok |-> FALSE, error |-> "Not Found"])

\* The handler from "Handle list action" on: the request is authorized
HttpRoute(req) ==
    LET action == PathParts(req.path)[2]
    IN  IF action = listAction /\ req.method = "GET"
        THEN [Did(req, [ev |-> "store.list", channel |-> req.channel])
                EXCEPT !.pc = "awaitList"]
        ELSE IF action = approveAction /\ req.method = "POST"
        THEN [req EXCEPT !.pc = "awaitBody"]
        ELSE sendJson(req, 404, [ok |-> FALSE, error |-> "Not Found"])

\* Whether the handler answers Unauthorized without asking the engine:
\* the request is not local and getBearerToken(req) gave nothing
MissingToken(req) == ~req.local /\ ~Truthy(req.token)

\* handlePairingHttpRequest up to its first await
HttpStart(req) ==
    IF ~startsWith(req.path, PAIRING_BASE_PATH)
    THEN [req EXCEPT !.pc = "unhandled"]
    ELSE LET pathParts == PathParts(req.path)
         IN  IF Len(pathParts) # 2
             THEN sendJson(req, 404, [ok |-> FALSE, error |-> "Not Found"])
             ELSE LET ch == resolveChannelHttp(pathParts[1])
                  IN  IF ~ch.ok
                      THEN sendJson(req, 400, [ok |-> FALSE, error |-> "Invalid channel"])
                      ELSE LET r1 == [req EXCEPT !.channel = ch.channel]
                           IN  IF MissingToken(r1)
                               THEN sendJson(r1, 401, [ok |-> FALSE, error |-> "Unauthorized"])
                               ELSE IF ~r1.local
                               THEN [Did(r1, [ev |-> "authorize"]) EXCEPT !.pc = "awaitAuth"]
                               ELSE HttpRoute([r1 EXCEPT !.authorized = TRUE])

\* The handler going on whatever the verdict of the engine
HttpAuthResumeUnchecked(req) ==
    IF req.result.kind = "threw" THEN [req EXCEPT !.pc = "threw"]
    ELSE HttpRoute([req EXCEPT !.authorized = TRUE, !.result = NoResult])

\* After the await of authorizeGatewayConnect; an exception of the engine
\* leaves the handler
HttpAuthResume(req) ==
    IF req.result.kind = "threw" THEN [req EXCEPT !.pc = "threw"]
    ELSE IF ~req.result.ok
    THEN sendJson(req, 401, [ok |-> FALSE, error |-> "Unauthorized"])
    ELSE HttpRoute([req EXCEPT !.authorized = TRUE, !.result = NoResult])

\* typeof body?.code === "string" ? body.code.trim() : ""
BodyCode(body) ==
    IF body.t = "object" /\ body.code.t = "string" THEN trim(body.code.s) ELSE <<>>

\* body?.notify === true
BodyNotify(body) ==
    body.t = "object" /\ body.notify = JBool(TRUE)

\* After the await of readJsonBody, which resolved to body (null for a body
\* that is not JSON or not an object)
HttpBodyResume(req, body) ==
    LET code == BodyCode(body)
        notify == BodyNotify(body)
        r1 == [req EXCEPT !.body = body, !.code = code, !.notify = notify]
    IN  IF code = <<>>
        THEN sendJson(r1, 400, [ok |-> FALSE, error |-> "code is required"])
        ELSE [Did(r1, [ev |-> "store.approve", channel |-> req.channel, code |-> code])
                EXCEPT !.pc = "awaitApprove"]

\* The list action answering without the requests the store returned
HttpListResumeDropping(req) ==
    IF req.result.kind = "threw"
    THEN sendJson(req, 500, [ok |-> FALSE, error |-> "String(err)"])
    ELSE sendJson(req, 200, [ok |-> TRUE, channel |-> req.channel,
                             requests |-> <<>>])

\* The list action after its await of the store
HttpListResume(req) ==
    IF req.result.kind = "threw"
    THEN sendJson(req, 500, [ok |-> FALSE, error |-> "String(err)"])
    ELSE sendJson(req, 200, [ok |-> TRUE, channel |-> req.channel,
                             requests |-> req.result.requests])

\* The response of an approve when the store matched no request
HttpNoMatchStatus == 404

\* The approve action after its await of the store
HttpApproveResume(req, cfgThrows) ==
    IF req.result.kind = "threw"
    THEN sendJson(req, 500, [ok |-> FALSE, error |-> "String(err)"])
    ELSE IF req.result.kind = "none"
    THEN sendJson(req, HttpNoMatchStatus,
                  [ok |-> FALSE, error |-> "No pending pairing request found for code"])
    ELSE IF req.notify
         THEN LET called == CallNotifier(req, cfgThrows)
              IN  IF called.notified.kind = "cfgThrew"
                  THEN sendJson(called, 500, [ok |-> FALSE, error |-> "String(err)"])
                  ELSE called
         ELSE sendJson(req, 200, [ok |-> TRUE, channel |-> req.channel,
                                  id |-> req.result.id, approved |-> TRUE])

\* The approve action after its await of the notifier: .catch(() => {})
\* drops a rejection
HttpNotifyResume(req) ==
    sendJson(req, 200, [ok |-> TRUE, channel |-> req.channel,
                        id |-> req.result.id, approved |-> TRUE])

(***************************************************************************)
(* Inputs                                                                  *)
(***************************************************************************)
\* Channel values that resolve, and values that do not: missing, not a
\* string, blank, malformed
GoodChannelInputs == {JStr(<<" ","S","m","s"," ">>), JStr(ext)}

BadChannelInputs == {Undef, JNum(7), JStr(<<" ", " ">>), JStr(<<"x","y","z","!">>)}

\* Codes that pass validation, and values that do not: missing, not a
\* string, blank
GoodCodeInputs == {JStr(codeA), JStr(<<" ">> \o codeA \o <<" ">>)}

BadCodeInputs == {Undef, JNum(7), JStr(<<" ">>)}

NotifyInputs == {Undef, JBool(FALSE), JBool(TRUE), JStr(<<"y">>)}

GatewayListParams ==
    {JNull} \cup {JObj(c, Undef, Undef) : c \in GoodChannelInputs \cup BadChannelInputs}

GatewayApproveParams ==
    {JNull}
    \cup {JObj(c, k, n) : c \in GoodChannelInputs, k \in GoodCodeInputs, n \in NotifyInputs}
    \cup {JObj(c, k, Undef) : c \in GoodChannelInputs, k \in BadCodeInputs}
    \cup {JObj(c, JStr(codeA), Undef) : c \in BadChannelInputs}

Route(channel, action) == PAIRING_BASE_PATH \o <<"/">> \o channel \o <<"/">> \o action

HttpPaths ==
    {Route(sms, listAction), Route(sms, approveAction),
     Route(<<"S","m","s">>, approveAction),
     Route(<<"x","y","z","!">>, approveAction),
     Route(sms, <<"d","r","o","p">>),
     PAIRING_BASE_PATH \o <<"/">> \o sms,
     Route(sms, approveAction) \o <<"/", "x">>,
     PAIRING_BASE_PATH \o sms \o <<"/">> \o listAction,
     <<"/","a","p","i">>}

HttpMethods == {"GET", "POST", "DELETE"}

\* Where a request comes from and the bearer token it carries
HttpCallers ==
    {[local |-> TRUE, token |-> Undef],
     [local |-> FALSE, token |-> Undef],
     [local |-> FALSE, token |-> JStr(GatewaySecret)],
     [local |-> FALSE, token |-> JStr(<<"x">>)]}

HttpBodies ==
    {JNull}
    \cup {JObj(Undef, k, n) : k \in GoodCodeInputs, n \in NotifyInputs}
    \cup {JObj(Undef, k, Undef) : k \in BadCodeInputs}

(***************************************************************************)
(* The approvals answered so far                                           *)
(***************************************************************************)
\* The request was answered with the approval result {channel, id, approved}
ApprovalAnswered(req) ==
    /\ req.pc = "done"
    /\ \/ /\ req.response.transport = "gateway"
          /\ req.response.ok
          /\ "approved" \in DOMAIN req.response.payload
       \/ /\ req.response.transport = "http"
          /\ req.response.status = 200
          /\ "approved" \in DOMAIN req.response.body

AnsweredId(req) ==
    IF req.response.transport = "gateway"
    THEN req.response.payload.id
    ELSE req.response.body.id

\* granted[id]: how many approve requests were answered with a success for
\* the pending request id (2: two or more)
Grant(g, req) ==
    IF ApprovalAnswered(req)
    THEN [g EXCEPT ![AnsweredId(req)] = IF @ < 2 THEN @ + 1 ELSE @]
    ELSE g

(***************************************************************************)
(* Actions                                                                 *)
(***************************************************************************)
Finished == {"done", "threw", "unhandled"}

\* A finished request is archived before anything else happens.
NoneFinished == \A s \in Slots : reqs[s].pc \notin Finished

FreeSlot(r) ==
    /\ NoneFinished
    /\ reqs[r].pc = "idle"
    /\ \A s \in Slots : s < r => reqs[s].pc # "idle"

Step(r, req) ==
    /\ reqs' = [reqs EXCEPT ![r] = req]
    /\ granted' = Grant(granted, req)
    /\ UNCHANGED probe

\* The awaited call of the request settled with result
Settled(req, result) ==
    Did([req EXCEPT !.result = result], [ev |-> "settled", result |-> result])

\* probe holds the input and the results of a function applied on its own;
\* the request handlers leave it alone.
NoProbe == [stage |-> "none"]

Init ==
    /\ reqs = [r \in Slots |-> IdleReq]
    /\ pending = InitialPending
    /\ granted = [i \in RequestIds |-> 0]
    /\ probe = NoProbe

ReceiveGatewayList(r) ==
    /\ FreeSlot(r)
    /\ \E params \in GatewayListParams :
          Step(r, GatewayListStart([IdleReq EXCEPT !.adapter = "gateway",
                                       !.method = "channel.pair.list",
                                       !.params = params]))
    /\ UNCHANGED pending

ReceiveGatewayApprove(r) ==
    /\ FreeSlot(r)
    /\ \E params \in GatewayApproveParams :
          Step(r, GatewayApproveStart([IdleReq EXCEPT !.adapter = "gateway",
                                          !.method = "channel.pair.approve",
                                          !.params = params]))
    /\ UNCHANGED pending

ReceiveHttp(r) ==
    /\ FreeSlot(r)
    /\ \E path \in HttpPaths, method \in HttpMethods, caller \in HttpCallers :
          Step(r, HttpStart([IdleReq EXCEPT !.adapter = "http",
                                !.method = method, !.path = path,
                                !.local = caller.local, !.token = caller.token]))
    /\ UNCHANGED pending

\* authorizeGatewayConnect returns its verdict or throws, and the handler
\* goes on
HttpAfterAuth(r) ==
    /\ NoneFinished
    /\ reqs[r].pc = "awaitAuth"
    /\ \E threw \in BOOLEAN :
          Step(r, HttpAuthResume(
                     Settled(reqs[r],
                             IF threw THEN [kind |-> "threw"]
                             ELSE [kind |-> "auth",
                                   ok |-> authorizeGatewayConnect(reqs[r].token.s).ok])))
    /\ UNCHANGED pending

\* readJsonBody resolves and the handler goes on
HttpAfterBody(r) ==
    /\ NoneFinished
    /\ reqs[r].pc = "awaitBody"
    /\ \E body \in HttpBodies : Step(r, HttpBodyResume(reqs[r], body))
    /\ UNCHANGED pending

\* What listChannelPairingRequests settles with: the pending requests of the
\* channel, or an exception
ListOutcome(store, req, threw) ==
    IF threw THEN [kind |-> "threw"]
    ELSE [kind |-> "list", requests |-> listChannelPairingRequests(store, req.channel)]

\* What approveChannelPairingCode settles with, and the store it leaves
ApproveOutcome(store, req, threw) ==
    IF threw THEN [store |-> store, result |-> [kind |-> "threw"]]
    ELSE approveChannelPairingCode(store, req.channel, req.code)

GatewayListAfterStore(r) ==
    /\ NoneFinished
    /\ reqs[r].pc = "awaitList" /\ reqs[r].adapter = "gateway"
    /\ \E threw \in BOOLEAN :
          Step(r, GatewayListResume(Settled(reqs[r], ListOutcome(pending, reqs[r], threw))))
    /\ UNCHANGED pending

HttpListAfterStore(r) ==
    /\ NoneFinished
    /\ reqs[r].pc = "awaitList" /\ reqs[r].adapter = "http"
    /\ \E threw \in BOOLEAN :
          Step(r, HttpListResume(Settled(reqs[r], ListOutcome(pending, reqs[r], threw))))
    /\ UNCHANGED pending

GatewayApproveAfterStore(r) ==
    /\ NoneFinished
    /\ reqs[r].pc = "awaitApprove" /\ reqs[r].adapter = "gateway"
    /\ \E threw \in BOOLEAN, cfgThrows \in BOOLEAN :
          LET out == ApproveOutcome(pending, reqs[r], threw)
          IN  /\ Step(r, GatewayApproveResume(Settled(reqs[r], out.result), cfgThrows))
              /\ pending' = out.store

HttpApproveAfterStore(r) ==
    /\ NoneFinished
    /\ reqs[r].pc = "awaitApprove" /\ reqs[r].adapter = "http"
    /\ \E threw \in BOOLEAN, cfgThrows \in BOOLEAN :
          LET out == ApproveOutcome(pending, reqs[r], threw)
          IN  /\ Step(r, HttpApproveResume(Settled(reqs[r], out.result), cfgThrows))
              /\ pending' = out.store

\* notifyPairingApproved settles: its promise resolves or rejects
NotifierSettles(r) ==
    /\ NoneFinished
    /\ reqs[r].pc = "awaitNotify"
    /\ \E kind \in {"resolved", "rejected"} :
          Step(r, [reqs[r] EXCEPT !.pc = "resumeNotify",
                                  !.notified = [kind |-> kind]])
    /\ UNCHANGED pending

GatewayApproveAfterNotify(r) ==
    /\ NoneFinished
    /\ reqs[r].pc = "resumeNotify" /\ reqs[r].adapter = "gateway"
    /\ Step(r, GatewayNotifyResume(reqs[r]))
    /\ UNCHANGED pending

HttpApproveAfterNotify(r) ==
    /\ NoneFinished
    /\ reqs[r].pc = "resumeNotify" /\ reqs[r].adapter = "http"
    /\ Step(r, HttpNotifyResume(reqs[r]))
    /\ UNCHANGED pending

\* The handler has returned: its slot is free for the next request.
Retire(r) ==
    /\ reqs[r].pc \in Finished
    /\ reqs' = [reqs EXCEPT ![r] = IdleReq]
    /\ UNCHANGED <<pending, granted, probe>>

Next ==
    \E r \in Slots :
       \/ ReceiveGatewayList(r)
       \/ ReceiveGatewayApprove(r)
       \/ ReceiveHttp(r)
       \/ HttpAfterAuth(r)
       \/ HttpAfterBody(r)
       \/ GatewayListAfterStore(r)
       \/ HttpListAfterStore(r)
       \/ GatewayApproveAfterStore(r)
       \/ HttpApproveAfterStore(r)
       \/ NotifierSettles(r)
       \/ GatewayApproveAfterNotify(r)
       \/ HttpApproveAfterNotify(r)
       \/ Retire(r)

Spec == Init /\ [][Next]_vars

\* The handlers' own steps are taken when they can be; whether and when the
\* notifier settles is up to the notifier, and requests come as they come.
FairSpec ==
    /\ Spec
    /\ \A r \in Slots :
          /\ WF_vars(HttpAfterAuth(r))
          /\ WF_vars(HttpAfterBody(r))
          /\ WF_vars(GatewayListAfterStore(r))
          /\ WF_vars(HttpListAfterStore(r))
          /\ WF_vars(GatewayApproveAfterStore(r))
          /\ WF_vars(HttpApproveAfterStore(r))
          /\ WF_vars(GatewayApproveAfterNotify(r))
          /\ WF_vars(HttpApproveAfterNotify(r))
          /\ WF_vars(Retire(r))

(***************************************************************************)
(* Vocabulary of the properties                                            *)
(***************************************************************************)
\* The positions of the request's trace where it did `ev`
Events(req, ev) == {i \in DOMAIN req.trace : req.trace[i].ev = ev}

\* The calls a request makes to the store, the config loader and the notifier
CollaboratorCalls == {"store.list", "store.approve", "loadConfig", "notify"}

CallsOut(req) == {i \in DOMAIN req.trace : req.trace[i].ev \in CollaboratorCalls}

IsApprove(req) ==
    \/ req.adapter = "gateway" /\ req.method = "channel.pair.approve"
    \/ req.adapter = "http" /\ "store.approve" \in {req.trace[i].ev : i \in DOMAIN req.trace}

\* The machine-usable class of a response: the gateway's error code, the
\* HTTP status
ErrorClass(req) ==
    IF req.response.transport = "gateway"
    THEN IF req.response.ok THEN "ok" ELSE req.response.error.code
    ELSE req.response.status

\* The request was answered with the failure for "no pending pairing request
\* found"
NoMatchAnswered(req) ==
    /\ req.pc = "done"
    /\ \/ /\ req.response.transport = "gateway"
          /\ ~req.response.ok
          /\ req.response.error.message = "no pending pairing request found for code"
       \/ /\ req.response.transport = "http"
          /\ req.response.status = 404
          /\ ~req.response.body.ok
          /\ req.response.body.error = "No pending pairing request found for code"

\* The store's approve-by-code call of the request returned no match
NoMatchSettled(req) == req.pc = "done" /\ req.result.kind = "none"

(***************************************************************************)
(* C1: at most one approve request is answered with a success for a given  *)
(* pending request, whatever the adapters and the interleaving of the      *)
(* requests; a request whose store call found the code no longer pending   *)
(* is answered with the failure for "no pending pairing request found".    *)
(***************************************************************************)
C1_AtMostOnceApproval ==
    /\ \A i \in RequestIds : granted[i] <= 1
    /\ \A i \in RequestIds :
          granted[i] = 1 => \A k \in DOMAIN pending : pending[k].id # i
    /\ \A r \in Slots :
          /\ ApprovalAnswered(reqs[r]) => reqs[r].result.kind = "approved"
          /\ NoMatchSettled(reqs[r]) => NoMatchAnswered(reqs[r])

\* A second approve for the (channel, code) of an approval already
\* answered is answered not-found.
C1_Witness ==
    \E r \in Slots :
       /\ granted["req_1"] = 1
       /\ NoMatchAnswered(reqs[r])
       /\ reqs[r].channel = sms
       /\ reqs[r].code = codeA

(***************************************************************************)
(* C2: every HTTP request under the pairing prefix from a non-local caller *)
(* whose bearer token is missing or rejected by the authorization engine   *)
(* is answered 401, whatever its path, channel, action, method or body.    *)
(***************************************************************************)
\* The caller is not local and carries no token the engine accepts
Unauthenticated(req) ==
    /\ req.adapter = "http"
    /\ ~req.local
    /\ IF Truthy(req.token) THEN ~authorizeGatewayConnect(req.token.s).ok ELSE TRUE

C2_UnauthorizedBeforeRouting ==
    \A r \in Slots :
       (reqs[r].pc = "done" /\ Unauthenticated(reqs[r]))
          => reqs[r].response.status = 401

(***************************************************************************)
(* C3: an HTTP request calls the store, the config loader or the notifier  *)
(* only if it passed the local-origin check or the authorization engine    *)
(* returned ok for its token; a request answered 401 has made no such call *)
(* and has not changed the store.                                          *)
(***************************************************************************)
\* The engine was asked about the request's token and returned ok
EngineAccepted(req) ==
    /\ Truthy(req.token)
    /\ \E i \in Events(req, "settled") :
          req.trace[i].result = [kind |-> "auth", ok |-> TRUE]

C3_CallsOnlyWhenAuthorized ==
    \A r \in Slots :
       reqs[r].adapter = "http" =>
          /\ CallsOut(reqs[r]) # {} => (reqs[r].local \/ EngineAccepted(reqs[r]))
          /\ (reqs[r].pc = "done" /\ reqs[r].response.status = 401) =>
                /\ CallsOut(reqs[r]) = {}
                /\ \A i \in Events(reqs[r], "settled") :
                      reqs[r].trace[i].result.kind = "auth"

\* A non-local request with an accepted token has called the store's approve.
C3_Witness ==
    \E r \in Slots :
       /\ reqs[r].adapter = "http"
       /\ ~reqs[r].local
       /\ EngineAccepted(reqs[r])
       /\ Events(reqs[r], "store.approve") # {}

(***************************************************************************)
(* C4: in both adapters the error class answered when the store's approve  *)
(* returned no match differs from the error class answered for malformed   *)
(* input or an unresolvable channel.                                       *)
(***************************************************************************)
\* The error class the adapter answers for input that fails validation
InvalidRequestClasses(adapter) ==
    IF adapter = "gateway"
    THEN {ErrorClass(GatewayApproveStart([IdleReq EXCEPT !.params = p])) :
             p \in {JNull, JObj(JStr(<<"x","y","z","!">>), JStr(codeA), Undef),
                    JObj(JStr(sms), Undef, Undef)}}
    ELSE {ErrorClass(HttpStart([IdleReq EXCEPT
                                   !.path = Route(<<"x","y","z","!">>, approveAction),
                                   !.local = TRUE])),
          ErrorClass(HttpBodyResume(IdleReq, JNull))}

C4_NotFoundIsNotInvalidRequest ==
    \A r \in Slots :
       NoMatchSettled(reqs[r])
          => ErrorClass(reqs[r]) \notin InvalidRequestClasses(reqs[r].adapter)

(***************************************************************************)
(* C5: a request that fails validation (params not an object; channel      *)
(* missing, not a string, blank or unresolvable; code missing, not a       *)
(* string or blank; HTTP body malformed) is answered with an               *)
(* invalid-request error (gateway INVALID_REQUEST, HTTP 400) and makes no  *)
(* call to the store, no broadcast, no config load and no notifier call.   *)
(***************************************************************************)
BadChannel(v) ==
    IF v.t # "string" THEN TRUE
    ELSE trim(v.s) = <<>> \/ ~resolveChannel(v.s).ok

BadCode(v) ==
    IF v.t # "string" THEN TRUE ELSE trim(v.s) = <<>>

\* The input of the request, as far as the handler has read it, fails
\* validation.  The HTTP handler reads the body only of an authorized
\* POST .../approve.
FailsValidation(req) ==
    \/ /\ req.adapter = "gateway"
       /\ \/ req.params.t # "object"
          \/ IF req.params.t = "object" THEN BadChannel(req.params.channel) ELSE FALSE
          \/ /\ req.method = "channel.pair.approve"
             /\ IF req.params.t = "object" THEN BadCode(req.params.code) ELSE FALSE
    \/ /\ req.adapter = "http"
       /\ startsWith(req.path, PAIRING_BASE_PATH)
       /\ Len(PathParts(req.path)) = 2
       /\ \/ BadChannel(JStr(PathParts(req.path)[1]))
          \/ /\ req.body # Undef
             /\ \/ req.body.t # "object"
                \/ IF req.body.t = "object" THEN BadCode(req.body.code) ELSE FALSE

InvalidRequestAnswered(req) ==
    /\ req.pc = "done"
    /\ \/ /\ req.response.transport = "gateway"
          /\ ~req.response.ok
          /\ req.response.error.code = "INVALID_REQUEST"
          /\ req.response.payload = Undef
       \/ /\ req.response.transport = "http"
          /\ req.response.status = 400
          /\ ~req.response.body.ok

C5_InvalidInputTouchesNothing ==
    \A r \in Slots :
       FailsValidation(reqs[r]) =>
          /\ InvalidRequestAnswered(reqs[r])
          /\ CallsOut(reqs[r]) = {}
          /\ Events(reqs[r], "broadcast") = {}
          /\ \A i \in Events(reqs[r], "settled") : reqs[r].trace[i].result.kind = "auth"

\* A gateway approve with a blank code and an HTTP approve with a malformed
\* body are both reachable; the witness is the HTTP one, read after
\* authorization by the engine.
C5_Witness ==
    \E r \in Slots :
       /\ reqs[r].adapter = "http"
       /\ reqs[r].body = JNull
       /\ ~reqs[r].local
       /\ InvalidRequestAnswered(reqs[r])

(***************************************************************************)
(* C6: the notifier is invoked for a request only if the request asked for *)
(* notify and the store's approve returned a resolved id for it, and then  *)
(* at most once, with the request's channel and that id; an approve with   *)
(* notify false or absent, a failed or no-match approve and a list request *)
(* never invoke it.                                                        *)
(***************************************************************************)
\* The notify value the request carries
NotifyAsked(req) ==
    IF req.adapter = "gateway"
    THEN IF req.params.t = "object" THEN req.params.notify ELSE Undef
    ELSE IF req.body.t = "object" THEN req.body.notify ELSE Undef

\* The channel of the request, normalized
NormalChannel(req) ==
    IF req.adapter = "gateway"
    THEN toLowerCase(trim(req.params.channel.s))
    ELSE toLowerCase(trim(PathParts(req.path)[1]))

C6_NotifierOnlyWhenAskedAndApproved ==
    \A r \in Slots :
       LET req == reqs[r]
           calls == Events(req, "notify")
       IN  /\ Cardinality(calls) <= 1
           /\ \A i \in calls :
                 /\ NotifyAsked(req) \notin {Undef, JBool(FALSE)}
                 /\ IsApprove(req)
                 /\ req.result.kind = "approved"
                 /\ req.trace[i].channelId = NormalChannel(req)
                 /\ req.trace[i].id = req.result.id
                 /\ \E k \in DOMAIN InitialPending :
                       /\ InitialPending[k].id = req.result.id
                       /\ InitialPending[k].channel = NormalChannel(req)

\* The notifier has been invoked for an approved gateway request.
C6_Witness ==
    \E r \in Slots :
       /\ Events(reqs[r], "notify") # {}
       /\ reqs[r].adapter = "gateway"
       /\ reqs[r].result.kind = "approved"

(***************************************************************************)
(* C7: when the store approve succeeded, notify was requested and the      *)
(* notifier call fails, the caller still receives the success response,    *)
(* the failure is logged, and the store's approved state is unchanged.     *)
(***************************************************************************)
C7_NotifierFailureLoggedAndSwallowed ==
    \A r \in Slots :
       (reqs[r].pc = "done" /\ reqs[r].notified.kind = "rejected") =>
          /\ ApprovalAnswered(reqs[r])
          /\ Events(reqs[r], "log.warn") # {}
          /\ \A k \in DOMAIN pending : pending[k].id # reqs[r].result.id

(***************************************************************************)
(* C8: the approval response does not wait on the notifier: an approve     *)
(* request whose notifier call is outstanding is eventually answered with  *)
(* its success response, even when the notifier call never completes.      *)
(***************************************************************************)
C8_ResponseDoesNotWaitOnNotifier ==
    \A r \in Slots :
       (reqs[r].pc = "awaitNotify") ~> ApprovalAnswered(reqs[r])

(***************************************************************************)
(* C9: a channel.pair.resolved broadcast is emitted exactly once for each  *)
(* gateway approve whose store call returned a resolved id, with the       *)
(* request's resolved channel, that id and decision "approved"; a failed,  *)
(* no-match or invalid gateway approve, a list request and an HTTP request *)
(* emit none.                                                              *)
(***************************************************************************)
C9_BroadcastExactlyOnce ==
    \A r \in Slots :
       LET req == reqs[r]
           sent == Events(req, "broadcast")
       IN  IF /\ req.adapter = "gateway"
              /\ req.method = "channel.pair.approve"
              /\ req.result.kind = "approved"
           THEN /\ Cardinality(sent) = 1
                /\ \A i \in sent :
                      /\ req.trace[i].event = "channel.pair.resolved"
                      /\ req.trace[i].channel = NormalChannel(req)
                      /\ req.trace[i].id = req.result.id
                      /\ req.trace[i].decision = "approved"
           ELSE sent = {}

\* A gateway approve given " Sms " has been answered with a success after
\* its broadcast.
C9_Witness ==
    \E r \in Slots :
       /\ reqs[r].adapter = "gateway"
       /\ ApprovalAnswered(reqs[r])
       /\ reqs[r].params.channel.s # reqs[r].channel
       /\ Events(reqs[r], "broadcast") # {}

(***************************************************************************)
(* C10: in a gateway approve the store's approve returns the id, then the  *)
(* broadcast is emitted, then (if notify was requested) the notifier is    *)
(* invoked, then the success response is sent; the broadcast never follows *)
(* the notifier call or the response, and none of them precedes the        *)
(* store's return.                                                         *)
(***************************************************************************)
\* Every `a` of the trace comes before every `b` of it
Before(req, a, b) ==
    \A i \in Events(req, a), j \in Events(req, b) : i < j

C10_GatewayApproveOrder ==
    \A r \in Slots :
       LET req == reqs[r]
       IN  (req.adapter = "gateway" /\ req.method = "channel.pair.approve") =>
              /\ Before(req, "settled", "broadcast")
              /\ Before(req, "settled", "notify")
              /\ Before(req, "settled", "respond")
              /\ Before(req, "broadcast", "notify")
              /\ Before(req, "broadcast", "respond")
              /\ Before(req, "notify", "respond")
              /\ Events(req, "notify") # {} => Events(req, "broadcast") # {}
              /\ ApprovalAnswered(req) =>
                    /\ Events(req, "settled") # {}
                    /\ Events(req, "broadcast") # {}
                    /\ Truthy(NotifyAsked(req)) => Events(req, "notify") # {}

\* A gateway approve that asked for notify has been answered with a success.
C10_Witness ==
    \E r \in Slots :
       /\ reqs[r].adapter = "gateway"
       /\ ApprovalAnswered(reqs[r])
       /\ Events(reqs[r], "notify") # {}
       /\ Events(reqs[r], "broadcast") # {}

(***************************************************************************)
(* The two adapters on one input                                           *)
(*                                                                         *)
(* EquivSpec hands the same (channel, code, notify) to a gateway approve   *)
(* and to an HTTP approve of a local caller, runs both handlers against    *)
(* the same store state and the same collaborator outcomes, and keeps the  *)
(* two finished requests side by side in probe.                            *)
(***************************************************************************)
EquivChannels == {<<"S","m","s">>, ext, <<"x","y","z","!">>}

EquivCodes == GoodCodeInputs \cup BadCodeInputs \cup {JStr(<<"9">>)}

EquivStores == {InitialPending, <<>>}

\* The gateway approve of the input, up to its await of the store
EquivGateway(in) ==
    GatewayApproveStart([IdleReq EXCEPT !.adapter = "gateway",
                            !.method = "channel.pair.approve",
                            !.params = JObj(JStr(in.channel), in.code, in.notify)])

\* POST {prefix}/{channel}/approve of a local caller with the body
\* {code, notify}, up to its await of the store
EquivHttp(in) ==
    LET started == HttpStart([IdleReq EXCEPT !.adapter = "http",
                                 !.method = "POST",
                                 !.path = Route(in.channel, approveAction),
                                 !.local = TRUE])
    IN  IF started.pc = "awaitBody"
        THEN HttpBodyResume(started, JObj(Undef, in.code, in.notify))
        ELSE started

\* The handler of req after its store call settled against store
EquivAfterStore(req, store, threw, cfgThrows) ==
    IF req.pc # "awaitApprove" THEN req
    ELSE LET settled == Settled(req, ApproveOutcome(store, req, threw).result)
         IN  IF req.adapter = "gateway"
             THEN GatewayApproveResume(settled, cfgThrows)
             ELSE HttpApproveResume(settled, cfgThrows)

\* The handler of req after its notifier call settled
EquivAfterNotify(req, kind) ==
    IF req.pc # "awaitNotify" THEN req
    ELSE LET settled == [req EXCEPT !.pc = "resumeNotify", !.notified = [kind |-> kind]]
         IN  IF req.adapter = "gateway"
             THEN GatewayNotifyResume(settled)
             ELSE HttpNotifyResume(settled)

EquivInit ==
    /\ reqs = [r \in Slots |-> IdleReq]
    /\ pending = InitialPending
    /\ granted = [i \in RequestIds |-> 0]
    /\ \E store \in EquivStores, channel \in EquivChannels,
          code \in EquivCodes, notify \in NotifyInputs :
          probe = [stage |-> "input", store |-> store, channel |-> channel,
                   code |-> code, notify |-> notify]

EquivReceive ==
    /\ probe.stage = "input"
    /\ probe' = [stage |-> "received", store |-> probe.store,
                 gateway |-> EquivGateway(probe), http |-> EquivHttp(probe)]
    /\ UNCHANGED <<reqs, pending, granted>>

EquivStoreSettles ==
    /\ probe.stage = "received"
    /\ \E threw \in BOOLEAN, cfgThrows \in BOOLEAN :
          probe' = [stage |-> "stored", store |-> probe.store,
                    gateway |-> EquivAfterStore(probe.gateway, probe.store, threw, cfgThrows),
                    http |-> EquivAfterStore(probe.http, probe.store, threw, cfgThrows)]
    /\ UNCHANGED <<reqs, pending, granted>>

EquivNotifierSettles ==
    /\ probe.stage = "stored"
    /\ \E kind \in {"resolved", "rejected"} :
          probe' = [stage |-> "finished", store |-> probe.store,
                    gateway |-> EquivAfterNotify(probe.gateway, kind),
                    http |-> EquivAfterNotify(probe.http, kind)]
    /\ UNCHANGED <<reqs, pending, granted>>

EquivNext == EquivReceive \/ EquivStoreSettles \/ EquivNotifierSettles

EquivSpec == EquivInit /\ [][EquivNext]_vars

\* The (channel, code) pairs the request passed to the store's approve
StoreApproveArgs(req) ==
    {[channel |-> req.trace[i].channel, code |-> req.trace[i].code] :
        i \in Events(req, "store.approve")}

\* The outcome class of a response
OutcomeClass(req) ==
    IF req.response.transport = "gateway"
    THEN IF req.response.ok THEN "success"
         ELSE IF req.response.error.code = ErrorCodes.INVALID_REQUEST THEN "invalid-request"
         ELSE "unavailable"
    ELSE CASE req.response.status = 200 -> "success"
           [] req.response.status = 400 -> "invalid-request"
           [] req.response.status = 404 -> "not-found"
           [] req.response.status = 401 -> "unauthorized"
           [] OTHER -> "unavailable"

\* The channel and id of a success response
SuccessResult(req) ==
    IF ~ApprovalAnswered(req) THEN <<>>
    ELSE IF req.response.transport = "gateway"
    THEN <<req.response.payload.channel, req.response.payload.id>>
    ELSE <<req.response.body.channel, req.response.body.id>>

(***************************************************************************)
(* C11: a gateway approve and an authorized HTTP approve given the same    *)
(* store state and the same (channel, code, notify) pass the same channel  *)
(* and code to the store, invoke the notifier under the same condition,    *)
(* and return the same outcome class with the same channel and id.         *)
(***************************************************************************)
C11_AdaptersAgreeOnApprove ==
    probe.stage = "finished" =>
        /\ StoreApproveArgs(probe.gateway) = StoreApproveArgs(probe.http)
        /\ (Events(probe.gateway, "notify") = {}) = (Events(probe.http, "notify") = {})
        /\ OutcomeClass(probe.gateway) = OutcomeClass(probe.http)
        /\ SuccessResult(probe.gateway) = SuccessResult(probe.http)

(***************************************************************************)
(* resolveChannel on its own                                               *)
(*                                                                         *)
(* ResolveSpec draws a raw string and a registry, and applies either copy  *)
(* of resolveChannel to the string, to a re-casing or padding of it, and   *)
(* to its own result; it also runs the handlers on the string against a    *)
(* store that holds a pending request of the resolved channel.             *)
(***************************************************************************)
MaxRawLen == 3

RawAlphabet == {"a", "Z", "0", "_", "-", " ", "!"}

RECURSIVE Rep(_, _)
Rep(c, n) == IF n = 0 THEN <<>> ELSE <<c>> \o Rep(c, n - 1)

\* Strings at the length limit of the pattern and one past it, and strings
\* that normalize to the known channels
LongRaws ==
    {Rep("a", ExtTailMax + 1), Rep("a", ExtTailMax + 2),
     <<" ">> \o Rep("A", ExtTailMax + 1) \o <<"\t">>,
     <<"0">> \o Rep("a", ExtTailMax)}

WordRaws == {<<" ","S","m","s"," ">>, <<"2","F","A">>, ext, <<"x","y","z","!">>}

RawStrings ==
    UNION {[1..n -> RawAlphabet] : n \in 0..MaxRawLen} \cup LongRaws \cup WordRaws

Registries ==
    {<<>>, listPairingChannels,
     << <<"0","a">>, <<"a","!">>, <<>>, Rep("a", ExtTailMax + 2) >>}

UpperChar(c) ==
    IF c \in Range(LowerLetters)
    THEN UpperLetters[CHOOSE i \in DOMAIN LowerLetters : LowerLetters[i] = c]
    ELSE c

\* Re-casings and whitespace paddings of a string
Variants(raw) ==
    {[i \in DOMAIN raw |-> UpperChar(raw[i])],
     [i \in DOMAIN raw |-> IF i = 1 THEN UpperChar(raw[i]) ELSE LowerChar(raw[i])],
     [i \in DOMAIN raw |-> LowerChar(raw[i])],
     <<" ">> \o raw, raw \o <<"\t">>, <<"\n", " ">> \o raw \o <<"\r">>}

Resolve(copy, registry, raw) ==
    IF copy = "gateway" THEN resolveChannelWith(registry, raw)
    ELSE resolveChannelHttpWith(registry, raw)

\* A store whose only pending request is one of the channel raw resolves to
StoreFor(raw) ==
    <<[channel |-> resolveChannel(raw).channel, code |-> codeA, id |-> "req_1"]>>

\* A gateway handler run to its end on the channel raw
HandleGateway(raw, method) ==
    LET req == [IdleReq EXCEPT !.adapter = "gateway", !.method = method,
                               !.params = JObj(JStr(raw), JStr(codeA), JBool(TRUE))]
    IN  IF method = "channel.pair.list"
        THEN LET started == GatewayListStart(req)
             IN  IF started.pc # "awaitList" THEN started
                 ELSE GatewayListResume(
                          Settled(started, ListOutcome(StoreFor(raw), started, FALSE)))
        ELSE EquivAfterNotify(
                 EquivAfterStore(GatewayApproveStart(req), StoreFor(raw), FALSE, FALSE),
                 "resolved")

\* The HTTP handler run to its end on {prefix}/{raw}/{action} of a local
\* caller
HandleHttp(raw, action) ==
    LET req == [IdleReq EXCEPT !.adapter = "http", !.path = Route(raw, action),
                               !.method = IF action = listAction THEN "GET" ELSE "POST",
                               !.local = TRUE]
        started == HttpStart(req)
    IN  IF started.pc = "awaitList"
        THEN HttpListResume(Settled(started, ListOutcome(StoreFor(raw), started, FALSE)))
        ELSE IF started.pc = "awaitBody"
        THEN EquivAfterNotify(
                 EquivAfterStore(
                     HttpBodyResume(started, JObj(Undef, JStr(codeA), JBool(TRUE))),
                     StoreFor(raw), FALSE, FALSE),
                 "resolved")
        ELSE started

ResolveInit ==
    /\ reqs = [r \in Slots |-> IdleReq]
    /\ pending = InitialPending
    /\ granted = [i \in RequestIds |-> 0]
    /\ \E raw \in RawStrings, registry \in Registries :
          probe = [stage |-> "raw", raw |-> raw, registry |-> registry]

ResolveGateway ==
    /\ probe.stage = "raw"
    /\ probe' = [stage |-> "resolved", raw |-> probe.raw, registry |-> probe.registry,
                 copy |-> "gateway",
                 result |-> resolveChannelWith(probe.registry, probe.raw)]
    /\ UNCHANGED <<reqs, pending, granted>>

ResolveHttp ==
    /\ probe.stage = "raw"
    /\ probe' = [stage |-> "resolved", raw |-> probe.raw, registry |-> probe.registry,
                 copy |-> "http",
                 result |-> resolveChannelHttpWith(probe.registry, probe.raw)]
    /\ UNCHANGED <<reqs, pending, granted>>

ResolveVariant ==
    /\ probe.stage = "resolved"
    /\ \E v \in Variants(probe.raw) :
          probe' = [stage |-> "variant", raw |-> probe.raw, registry |-> probe.registry,
                    copy |-> probe.copy, result |-> probe.result, variant |-> v,
                    other |-> Resolve(probe.copy, probe.registry, v)]
    /\ UNCHANGED <<reqs, pending, granted>>

ResolveAgain ==
    /\ probe.stage = "resolved"
    /\ probe.result.ok
    /\ probe' = [stage |-> "again", raw |-> probe.raw, registry |-> probe.registry,
                 copy |-> probe.copy, result |-> probe.result,
                 again |-> Resolve(probe.copy, probe.registry, probe.result.channel)]
    /\ UNCHANGED <<reqs, pending, granted>>

\* The handlers resolve against listPairingChannels(); they are run on the
\* short strings.
HandleRawGateway ==
    /\ probe.stage = "raw"
    /\ probe.registry = listPairingChannels
    /\ probe.raw \notin LongRaws
    /\ \E method \in {"channel.pair.list", "channel.pair.approve"} :
          probe' = [stage |-> "handled", raw |-> probe.raw, registry |-> probe.registry,
                    req |-> HandleGateway(probe.raw, method)]
    /\ UNCHANGED <<reqs, pending, granted>>

\* A path segment holds no "/" and no whitespace.
HandleRawHttp ==
    /\ probe.stage = "raw"
    /\ probe.registry = listPairingChannels
    /\ probe.raw \notin LongRaws
    /\ probe.raw # <<>>
    /\ Range(probe.raw) \cap (Whitespace \cup {"/"}) = {}
    /\ \E action \in {listAction, approveAction} :
          probe' = [stage |-> "handled", raw |-> probe.raw, registry |-> probe.registry,
                    req |-> HandleHttp(probe.raw, action)]
    /\ UNCHANGED <<reqs, pending, granted>>

ResolveNext ==
    \/ ResolveGateway
    \/ ResolveHttp
    \/ ResolveVariant
    \/ ResolveAgain
    \/ HandleRawGateway
    \/ HandleRawHttp

ResolveSpec == ResolveInit /\ [][ResolveNext]_vars

\* The reference rule: v = lowercase(trim(raw))
RefNormal(raw) ==
    LET keep == {i \in DOMAIN raw : raw[i] \notin Whitespace}
    IN  IF keep = {} THEN <<>>
        ELSE LET lo == CHOOSE i \in keep : \A j \in keep : i <= j
                 hi == CHOOSE i \in keep : \A j \in keep : j <= i
             IN  [i \in 1..(hi - lo + 1) |-> LowerChar(raw[lo + i - 1])]

\* The reference rule: first character a lowercase letter, total length 1 to
\* 64, every character a lowercase letter, a digit, '_' or '-'
RefPattern(v) ==
    /\ Len(v) \in 1..64
    /\ v[1] \in Range(LowerLetters)
    /\ Range(v) \subseteq Range(LowerLetters) \cup Digits \cup {"_", "-"}

RefAccepts(registry, raw) ==
    RefNormal(raw) \in Range(registry) \/ RefPattern(RefNormal(raw))

(***************************************************************************)
(* C12: either copy of resolveChannel returns v = lowercase(trim(raw)) when *)
(* v is a member of the registry or matches ^[a-z][a-z0-9_-]{0,63}$, and   *)
(* null otherwise, for every raw string and registry.                      *)
(***************************************************************************)
C12_ResolveChannelIsReferenceRule ==
    probe.stage = "resolved" =>
        IF RefAccepts(probe.registry, probe.raw)
        THEN probe.result = [ok |-> TRUE, channel |-> RefNormal(probe.raw)]
        ELSE ~probe.result.ok

\* A 65-character string was rejected under a registry that does not hold it.
C12_Witness ==
    /\ probe.stage = "resolved"
    /\ probe.copy = "http"
    /\ Len(RefNormal(probe.raw)) = 65
    /\ probe.registry = <<>>
    /\ ~probe.result.ok

\* The channels a finished request passed to the store, broadcast, handed to
\* the notifier and echoed in a success response
ChannelsUsed(req) ==
    {req.trace[i].channel :
        i \in Events(req, "store.list") \cup Events(req, "store.approve")
              \cup Events(req, "broadcast")}
    \cup {req.trace[i].channelId : i \in Events(req, "notify")}
    \cup (IF req.response.transport = "gateway" /\ req.response.ok
          THEN {req.response.payload.channel}
          ELSE IF req.response.transport = "http" /\ req.response.status = 200
          THEN {req.response.body.channel}
          ELSE {})

(***************************************************************************)
(* C13: resolveChannel gives the same result for a string and for any      *)
(* re-casing or whitespace padding of it; a non-null result is trimmed and *)
(* lowercase, and resolving it again returns it unchanged; the channel the *)
(* handlers pass to the store, broadcast and echo in a response is the     *)
(* normalized form of the input.                                           *)
(***************************************************************************)
C13_ResolutionIsNormalizing ==
    /\ probe.stage = "variant" => probe.other = probe.result
    /\ (probe.stage = "resolved" /\ probe.result.ok) =>
          /\ Range(probe.result.channel) \cap Range(UpperLetters) = {}
          /\ probe.result.channel # <<>> =>
                /\ probe.result.channel[1] \notin Whitespace
                /\ probe.result.channel[Len(probe.result.channel)] \notin Whitespace
    /\ probe.stage = "again" => probe.again = probe.result
    /\ probe.stage = "handled" => ChannelsUsed(probe.req) \subseteq {RefNormal(probe.raw)}

\* The upper-casing of " Sms " resolved, as " Sms " did, to the known channel
\* sms.
C13_Witness ==
    /\ probe.stage = "variant"
    /\ probe.raw = <<" ","S","m","s"," ">>
    /\ probe.variant = <<" ","S","M","S"," ">>
    /\ probe.registry = listPairingChannels
    /\ probe.other = [ok |-> TRUE, channel |-> sms]

\* The HTTP request names one of the two routes: GET {channel}/list or
\* POST {channel}/approve
NamesRoute(req) ==
    /\ Len(PathParts(req.path)) = 2
    /\ \/ PathParts(req.path)[2] = listAction /\ req.method = "GET"
       \/ PathParts(req.path)[2] = approveAction /\ req.method = "POST"

(***************************************************************************)
(* C14: every HTTP response carries a boolean ok and a status in {200,     *)
(* 400, 401, 404, 500}, with ok true exactly for 200; 200 is sent only     *)
(* after the store's list returned or its approve returned an id, 404 only *)
(* for a wrong path shape, an unknown action/method pair or a no-match     *)
(* approve, and 500 only when a store call threw.                          *)
(***************************************************************************)
C14_HttpStatusDiscipline ==
    \A r \in Slots :
       LET req == reqs[r]
       IN  req.response.transport = "http" =>
              /\ req.response.body.ok \in BOOLEAN
              /\ req.response.status \in {200, 400, 401, 404, 500}
              /\ req.response.body.ok <=> req.response.status = 200
              /\ req.response.status = 200 => req.result.kind \in {"list", "approved"}
              /\ req.response.status = 404 =>
                    \/ ~NamesRoute(req)
                    \/ req.result.kind = "none"
              /\ req.response.status = 500 => req.result.kind = "threw"

(***************************************************************************)
(* C15: whatever the collaborators do, an exception of the authorization   *)
(* engine, the store, the config loader or the notifier included, no       *)
(* exception leaves a handler, and a handler that has returned has written *)
(* exactly one response with a success/failure flag; a handler still       *)
(* running has written none.                                               *)
(***************************************************************************)
C15_OneResponseNoException ==
    \A r \in Slots :
       LET req == reqs[r]
       IN  /\ req.pc # "threw"
           /\ req.pc = "done" =>
                 /\ Cardinality(Events(req, "respond")) = 1
                 /\ IF req.response.transport = "gateway"
                    THEN req.response.ok \in BOOLEAN
                    ELSE req.response.body.ok \in BOOLEAN
           /\ req.pc \notin Finished => Events(req, "respond") = {}

\* The store call of the finished request threw
StoreThrew(req) == req.pc = "done" /\ req.result.kind = "threw"

(***************************************************************************)
(* C16: when the store's list or approve call throws, the caller receives  *)
(* an unavailable error (gateway UNAVAILABLE, HTTP 500) whose text is the  *)
(* message of the exception, with no success flag and no list; and the     *)
(* request emits no broadcast, loads no config and calls no notifier.      *)
(***************************************************************************)
C16_StoreFailureIsUnavailable ==
    \A r \in Slots :
       LET req == reqs[r]
       IN  StoreThrew(req) =>
              /\ IF req.response.transport = "gateway"
                 THEN /\ ~req.response.ok
                      /\ req.response.payload = Undef
                      /\ req.response.error =
                            errorShape(ErrorCodes.UNAVAILABLE, "String(err)")
                 ELSE /\ req.response.status = 500
                      /\ req.response.body = [ok |-> FALSE, error |-> "String(err)"]
              /\ Events(req, "broadcast") = {}
              /\ Events(req, "loadConfig") = {}
              /\ Events(req, "notify") = {}

\* A gateway list whose store call threw has been answered.
C16_Witness ==
    \E r \in Slots :
       /\ StoreThrew(reqs[r])
       /\ reqs[r].adapter = "gateway"
       /\ reqs[r].method = "channel.pair.list"
       /\ Events(reqs[r], "respond") # {}

\* The caller passes the authorization gate: it is local, or its bearer
\* token is the one the engine accepts
Authorizable(req) ==
    req.local \/ (req.token.t = "string" /\ authorizeGatewayConnect(req.token.s).ok)

\* A finished HTTP request of an authorizable caller, under the prefix, that
\* names neither route
OtherRequest(req) ==
    /\ req.adapter = "http"
    /\ req.pc = "done"
    /\ Authorizable(req)
    /\ startsWith(req.path, PAIRING_BASE_PATH)
    /\ ~NamesRoute(req)

\* The first segment after the prefix resolves to a channel
ChannelResolves(req) ==
    Len(PathParts(req.path)) >= 1 /\ resolveChannelHttp(PathParts(req.path)[1]).ok

\* The store calls of an HTTP request are those of its route
StoreCallsFollowRoute(req) ==
    /\ Events(req, "store.list") # {} =>
          /\ req.method = "GET"
          /\ Len(PathParts(req.path)) = 2
          /\ PathParts(req.path)[2] = listAction
    /\ Events(req, "store.approve") # {} =>
          /\ req.method = "POST"
          /\ Len(PathParts(req.path)) = 2
          /\ PathParts(req.path)[2] = approveAction

\* C17 as stated: every other authorized request under the prefix is
\* answered 404 with no store call.
C17_EveryOtherRequestIs404 ==
    \A r \in Slots :
       /\ reqs[r].adapter = "http" => StoreCallsFollowRoute(reqs[r])
       /\ OtherRequest(reqs[r]) =>
             /\ reqs[r].response.status = 404
             /\ CallsOut(reqs[r]) = {}

(***************************************************************************)
(* C17, amended: the store's list is called only for GET with action       *)
(* "list" and its approve only for POST with action "approve", in both     *)
(* cases with exactly two segments after the prefix; every other           *)
(* authorized request under the prefix is answered with no store call:     *)
(* 404 when it has another segment count or its channel resolves, 400      *)
(* when it has two segments and its channel does not resolve.              *)
(***************************************************************************)
C17_HttpRouting ==
    \A r \in Slots :
       /\ reqs[r].adapter = "http" => StoreCallsFollowRoute(reqs[r])
       /\ OtherRequest(reqs[r]) =>
             /\ CallsOut(reqs[r]) = {}
             /\ reqs[r].response.status =
                   IF Len(PathParts(reqs[r].path)) # 2 \/ ChannelResolves(reqs[r])
                   THEN 404 ELSE 400

\* GET {prefix}/sms/approve of a caller with the accepted token was answered
\* 404.
C17_Witness ==
    \E r \in Slots :
       /\ OtherRequest(reqs[r])
       /\ ~reqs[r].local
       /\ reqs[r].method = "GET"
       /\ reqs[r].path = Route(sms, approveAction)
       /\ reqs[r].response.status = 404

\* The store's approve call of the request returned a resolved id
Committed(req) == req.result.kind = "approved"

(***************************************************************************)
(* C18: once the store's approve call has returned a resolved id, the      *)
(* request is answered with the success result {channel, id, approved:     *)
(* true}, whatever the broadcast, the config load and the notifier do.     *)
(***************************************************************************)
C18_CommittedApprovalIsSuccess ==
    \A r \in Slots :
       (Committed(reqs[r]) /\ reqs[r].pc = "done") =>
          /\ ApprovalAnswered(reqs[r])
          /\ AnsweredId(reqs[r]) = reqs[r].result.id

\* The request path is the prefix itself or begins with the prefix and "/"
UnderPrefix(path) ==
    path = PAIRING_BASE_PATH \/ startsWith(path, PAIRING_BASE_PATH \o <<"/">>)

(***************************************************************************)
(* C19: for a request path that is neither "/api/pairing" nor begins with  *)
(* "/api/pairing/", handlePairingHttpRequest returns false, writes no      *)
(* response and makes no authorization, store or notifier call.            *)
(***************************************************************************)
C19_OnlyPathsUnderPrefix ==
    \A r \in Slots :
       (reqs[r].adapter = "http" /\ ~UnderPrefix(reqs[r].path)) =>
          /\ reqs[r].pc = "unhandled"
          /\ reqs[r].trace = <<>>
          /\ reqs[r].response = NoResponse

\* The request is a list request: "channel.pair.list", or GET
\* {prefix}/{channel}/list
IsList(req) ==
    \/ req.adapter = "gateway" /\ req.method = "channel.pair.list"
    \/ /\ req.adapter = "http"
       /\ req.method = "GET"
       /\ Len(PathParts(req.path)) = 2
       /\ PathParts(req.path)[2] = listAction

\* The request was answered with a success
SuccessAnswered(req) ==
    \/ req.response.transport = "gateway" /\ req.response.ok
    \/ req.response.transport = "http" /\ req.response.status = 200

\* The requests a list response carries
AnsweredRequests(req) ==
    IF req.response.transport = "gateway"
    THEN req.response.payload.requests
    ELSE req.response.body.requests

\* A list request has called and emitted nothing but the store's list, and a
\* success carries the sequence its store call settled with.
ListCallsOnlyList(req) ==
    /\ Events(req, "store.approve") = {}
    /\ Events(req, "broadcast") = {}
    /\ Events(req, "loadConfig") = {}
    /\ Events(req, "notify") = {}
    /\ SuccessAnswered(req) =>
          /\ req.result.kind = "list"
          /\ AnsweredRequests(req) = req.result.requests

\* A step of a list request leaves the pending set as it is, and a success
\* carries the pending requests of the resolved channel, in the store's order.
ListStep(r) ==
    (reqs'[r] # reqs[r] /\ IsList(reqs'[r])) =>
        /\ pending' = pending
        /\ SuccessAnswered(reqs'[r]) =>
              AnsweredRequests(reqs'[r]) =
                 listChannelPairingRequests(pending, reqs'[r].channel)

(***************************************************************************)
(* C20: a list request through either adapter, whatever its outcome,       *)
(* leaves the store's pending set unchanged, never calls the store's       *)
(* approve, emits no broadcast, loads no config and calls no notifier; on  *)
(* success it returns exactly the sequence the store returned for the      *)
(* resolved channel.                                                       *)
(***************************************************************************)
C20_ListIsReadOnly ==
    /\ [](\A r \in Slots : IsList(reqs[r]) => ListCallsOnlyList(reqs[r]))
    /\ [][\A r \in Slots : ListStep(r)]_vars

\* An HTTP list was answered 200 with the pending request of its channel.
C20_Witness ==
    \E r \in Slots :
       /\ IsList(reqs[r])
       /\ reqs[r].adapter = "http"
       /\ SuccessAnswered(reqs[r])
       /\ Len(AnsweredRequests(reqs[r])) = 1
       /\ pending = InitialPending

====
